---- MODULE Spec2Model ----
(***************************************************************************)
(* Five-card draw poker (Main.py): the hand evaluator, the opponent        *)
(* policy, the betting round and the session loop, as a state machine.     *)
(*                                                                         *)
(* A card is a pair <<rank string, suit>>: the source's card string is the *)
(* rank string followed by one suit character (card[:-1], card[-1]).  The  *)
(* four suit symbols are written "s", "h", "d", "c".                       *)
(***************************************************************************)
EXTENDS Integers, Sequences, FiniteSets, TLC

\* ------------------------------------------------------------------------
\* Cards and deck utilities
\* ------------------------------------------------------------------------
RANKS == <<"2", "3", "4", "5", "6", "7", "8", "9", "10", "J", "Q", "K", "A">>

SUITS == <<"s", "h", "d", "c">>

\* {r: i for i, r in enumerate(RANKS, start=2)}
RANK_VALUE == [r \in {RANKS[i] : i \in 1..Len(RANKS)} |->
                 (CHOOSE i \in 1..Len(RANKS) : RANKS[i] = r) + 1]

\* [r + s for r in RANKS for s in SUITS]
make_deck == [k \in 1..(Len(RANKS) * Len(SUITS)) |->
                <<RANKS[((k - 1) \div Len(SUITS)) + 1],
                  SUITS[((k - 1) % Len(SUITS)) + 1]>>]

card_rank(card) == RANK_VALUE[card[1]]

card_suit(card) == card[2]

\* [deck.pop() for _ in range(n)]: the cards dealt, last card of the deck first
deal_cards(deck, n) == [i \in 1..n |-> deck[Len(deck) + 1 - i]]

\* the deck after n pops
deal_rest(deck, n) == SubSeq(deck, 1, Len(deck) - n)

\* ------------------------------------------------------------------------
\* Helpers for Python built-ins
\* ------------------------------------------------------------------------
Min(a, b) == IF a < b THEN a ELSE b

Max(a, b) == IF a > b THEN a ELSE b

SeqToSet(s) == {s[i] : i \in 1..Len(s)}

SetMax(S) == CHOOSE x \in S : \A y \in S : y <= x

\* Python tuple/list comparison a > b (lexicographic, a proper prefix is less)
RECURSIVE TupleGT(_, _)
TupleGT(a, b) ==
    IF Len(a) = 0 THEN FALSE
    ELSE IF Len(b) = 0 THEN TRUE
    ELSE IF a[1] > b[1] THEN TRUE
    ELSE IF a[1] < b[1] THEN FALSE
    ELSE TupleGT(Tail(a), Tail(b))

\* sorted(xs, reverse=True) for a list of integers
RECURSIVE InsertDesc(_, _)
InsertDesc(x, s) ==
    IF Len(s) = 0 THEN <<x>>
    ELSE IF x > s[1] THEN <<x>> \o s
    ELSE <<s[1]>> \o InsertDesc(x, Tail(s))

RECURSIVE SortedDesc(_)
SortedDesc(s) ==
    IF Len(s) = 0 THEN <<>> ELSE InsertDesc(s[1], SortedDesc(Tail(s)))

\* sorted(set(..), reverse=True) for a set of integers
RECURSIVE SetSortedDesc(_)
SetSortedDesc(S) ==
    IF S = {} THEN <<>>
    ELSE LET m == SetMax(S) IN <<m>> \o SetSortedDesc(S \ {m})

\* sorted(pairs, key=lambda x: (x[0], x[1]), reverse=True) for a set of pairs
RECURSIVE PairsSortedDesc(_)
PairsSortedDesc(S) ==
    IF S = {} THEN <<>>
    ELSE LET m == CHOOSE p \in S : \A q \in S : q = p \/ TupleGT(p, q)
         IN <<m>> \o PairsSortedDesc(S \ {m})

\* ------------------------------------------------------------------------
\* Hand evaluation
\* ------------------------------------------------------------------------
hand_ranks(hand) == [i \in 1..Len(hand) |-> card_rank(hand[i])]

\* rank_counts[r]: how many cards of the list have rank r
rank_count(ranks, r) == Cardinality({i \in 1..Len(ranks) : ranks[i] = r})

\* for i in range(len - 4): the first window of 5 spanning exactly 4, or 0 for None
RECURSIVE straight_scan(_, _)
straight_scan(u, i) ==
    IF i > Len(u) - 4 THEN 0
    ELSE IF u[i] - u[i + 4] = 4 THEN u[i]
    ELSE straight_scan(u, i + 1)

\* a slip: the wheel is a straight, with the ace as its high card
is_straight_ace_high(unique_desc_ranks) ==
    IF Len(unique_desc_ranks) < 5 THEN <<FALSE, 0>>
    ELSE LET best_high == straight_scan(unique_desc_ranks, 1) IN
         IF best_high = 0 /\ {14, 5, 4, 3, 2} \subseteq SeqToSet(unique_desc_ranks)
         THEN <<TRUE, 14>>
         ELSE <<best_high # 0, best_high>>

\* _is_straight: <<is_straight, straight_high>>
is_straight_of(unique_desc_ranks) ==
    IF Len(unique_desc_ranks) < 5 THEN <<FALSE, 0>>
    ELSE LET best_high == straight_scan(unique_desc_ranks, 1) IN
         IF best_high = 0 /\ {14, 5, 4, 3, 2} \subseteq SeqToSet(unique_desc_ranks)
         THEN <<TRUE, 5>>
         ELSE <<best_high # 0, best_high>>

\* a slip: the flush is tested before the straight flush
evaluate_hand_flush_first(hand) ==
    LET ranks == SortedDesc(hand_ranks(hand))
        suits == {card_suit(hand[i]) : i \in 1..Len(hand)}
        unique_ranks == SetSortedDesc(SeqToSet(ranks))
        is_flush == Cardinality(suits) = 1
        st == is_straight_of(unique_ranks)
        is_straight == st[1]
        straight_high == st[2]
        groups == PairsSortedDesc({<<rank_count(ranks, r), r>> : r \in SeqToSet(ranks)})
        counts_sorted == [i \in 1..Len(groups) |-> groups[i][1]]
    IN
    IF is_flush THEN <<5>> \o SortedDesc(ranks)
    ELSE IF is_straight /\ is_flush THEN <<8, straight_high>>
    ELSE IF counts_sorted[1] = 4 THEN
        LET quad_rank == groups[1][2]
            kicker == SetMax({r \in SeqToSet(ranks) : r # quad_rank})
        IN <<7, quad_rank, kicker>>
    ELSE IF counts_sorted[1] = 3 /\ counts_sorted[2] = 2 THEN
        <<6, groups[1][2], groups[2][2]>>
    ELSE IF is_flush THEN <<5>> \o SortedDesc(ranks)
    ELSE IF is_straight THEN <<4, straight_high>>
    ELSE IF counts_sorted[1] = 3 THEN
        LET trips_rank == groups[1][2]
        IN <<3, trips_rank>> \o SortedDesc(SelectSeq(ranks, LAMBDA r : r # trips_rank))
    ELSE IF counts_sorted[1] = 2 /\ counts_sorted[2] = 2 THEN
        LET pair1 == Max(groups[1][2], groups[2][2])
            pair2 == Min(groups[1][2], groups[2][2])
            kicker == SetMax({r \in SeqToSet(ranks) : r # pair1 /\ r # pair2})
        IN <<2, pair1, pair2, kicker>>
    ELSE IF counts_sorted[1] = 2 THEN
        LET pair_rank == groups[1][2]
        IN <<1, pair_rank>> \o SortedDesc(SelectSeq(ranks, LAMBDA r : r # pair_rank))
    ELSE <<0>> \o SortedDesc(ranks)

evaluate_hand(hand) ==
    LET ranks == SortedDesc(hand_ranks(hand))
        suits == {card_suit(hand[i]) : i \in 1..Len(hand)}
        unique_ranks == SetSortedDesc(SeqToSet(ranks))
        is_flush == Cardinality(suits) = 1
        st == is_straight_of(unique_ranks)
        is_straight == st[1]
        straight_high == st[2]
        groups == PairsSortedDesc({<<rank_count(ranks, r), r>> : r \in SeqToSet(ranks)})
        counts_sorted == [i \in 1..Len(groups) |-> groups[i][1]]
    IN
    IF is_straight /\ is_flush THEN <<8, straight_high>>
    ELSE IF counts_sorted[1] = 4 THEN
        LET quad_rank == groups[1][2]
            kicker == SetMax({r \in SeqToSet(ranks) : r # quad_rank})
        IN <<7, quad_rank, kicker>>
    ELSE IF counts_sorted[1] = 3 /\ counts_sorted[2] = 2 THEN
        <<6, groups[1][2], groups[2][2]>>
    ELSE IF is_flush THEN <<5>> \o SortedDesc(ranks)
    ELSE IF is_straight THEN <<4, straight_high>>
    ELSE IF counts_sorted[1] = 3 THEN
        LET trips_rank == groups[1][2]
        IN <<3, trips_rank>> \o SortedDesc(SelectSeq(ranks, LAMBDA r : r # trips_rank))
    ELSE IF counts_sorted[1] = 2 /\ counts_sorted[2] = 2 THEN
        LET pair1 == Max(groups[1][2], groups[2][2])
            pair2 == Min(groups[1][2], groups[2][2])
            kicker == SetMax({r \in SeqToSet(ranks) : r # pair1 /\ r # pair2})
        IN <<2, pair1, pair2, kicker>>
    ELSE IF counts_sorted[1] = 2 THEN
        LET pair_rank == groups[1][2]
        IN <<1, pair_rank>> \o SortedDesc(SelectSeq(ranks, LAMBDA r : r # pair_rank))
    ELSE <<0>> \o SortedDesc(ranks)

\* a slip: only the categories are compared
compare_hands_category_only(h1, h2) ==
    LET e1 == evaluate_hand(h1)
        e2 == evaluate_hand(h2)
    IN IF e1[1] > e2[1] THEN 1 ELSE IF e2[1] > e1[1] THEN -1 ELSE 0

compare_hands(h1, h2) ==
    LET e1 == evaluate_hand(h1)
        e2 == evaluate_hand(h2)
    IN IF TupleGT(e1, e2) THEN 1 ELSE IF TupleGT(e2, e1) THEN -1 ELSE 0

\* ------------------------------------------------------------------------
\* Opponent policy
\* ------------------------------------------------------------------------
\* _find_pair_rank: the first rank (in dict insertion order) counted twice, else -1
find_pair_rank(ranks) ==
    LET idx == {i \in 1..Len(ranks) : rank_count(ranks, ranks[i]) = 2}
    IN IF idx = {} THEN -1
       ELSE ranks[CHOOSE i \in idx : \A j \in idx : i <= j]

\* range(n), the 0-based indices of a list of n items
range_list(n) == [k \in 1..n |-> k - 1]

\* xs[:n]
take(xs, n) == SubSeq(xs, 1, Min(n, Len(xs)))

\* a slip: the discards of a hand without a pair are not capped at 3
ai_choose_discards_uncapped(hand) ==
    LET ranks == hand_ranks(hand)
        eval_rank == evaluate_hand(hand)[1]
    IN
    IF eval_rank >= 2 THEN <<>>
    ELSE IF eval_rank = 1 THEN
        LET pair_rank == find_pair_rank(ranks)
        IN SelectSeq(range_list(Len(hand)), LAMBDA i : ranks[i + 1] # pair_rank)
    ELSE
        LET high == SelectSeq(range_list(Len(hand)),
                              LAMBDA i : ranks[i + 1] >= RANK_VALUE["Q"])
            keep_idxs == IF Len(high) > 2 THEN take(high, 2) ELSE high
            discard == SelectSeq(range_list(Len(hand)),
                                 LAMBDA i : i \notin SeqToSet(keep_idxs))
        IN discard

\* ai_choose_discards: 0-based indices to discard
ai_choose_discards(hand) ==
    LET ranks == hand_ranks(hand)
        eval_rank == evaluate_hand(hand)[1]
    IN
    IF eval_rank >= 2 THEN <<>>
    ELSE IF eval_rank = 1 THEN
        LET pair_rank == find_pair_rank(ranks)
        IN SelectSeq(range_list(Len(hand)), LAMBDA i : ranks[i + 1] # pair_rank)
    ELSE
        LET high == SelectSeq(range_list(Len(hand)),
                              LAMBDA i : ranks[i + 1] >= RANK_VALUE["Q"])
            keep_idxs == IF Len(high) > 2 THEN take(high, 2) ELSE high
            discard == SelectSeq(range_list(Len(hand)),
                                 LAMBDA i : i \notin SeqToSet(keep_idxs))
        IN IF Len(discard) > 3 THEN take(discard, 3) ELSE discard

\* the sizing max(2, pot // 4 if pot > 0 else 2)
bet_sizing(pot_) == Max(2, IF pot_ > 0 THEN pot_ \div 4 ELSE 2)

\* ai_bet_decision: <<action, amount>>; lucky is the outcome of
\* random.random() < 0.3
ai_bet_decision(stage_, hand, can_raise, to_call_, ai_bank_, pot_, lucky) ==
    LET strength == evaluate_hand(hand)[1] IN
    IF to_call_ > 0 THEN
        IF strength >= 3 THEN
            IF can_raise /\ ai_bank_ > to_call_ /\ pot_ >= 2
            THEN <<"raise", Max(1, Min(ai_bank_ - to_call_, Max(2, pot_ \div 4)))>>
            ELSE <<"call", to_call_>>
        ELSE IF strength = 2 THEN
            IF to_call_ <= Max(2, pot_ \div 3) \/ to_call_ <= ai_bank_ \div 6
            THEN <<"call", to_call_>>
            ELSE <<"fold", 0>>
        ELSE IF strength = 1 THEN
            IF to_call_ <= Max(1, pot_ \div 5)
            THEN <<"call", to_call_>>
            ELSE <<"fold", 0>>
        ELSE IF to_call_ <= 1 /\ lucky THEN <<"call", to_call_>>
        ELSE <<"fold", 0>>
    ELSE
        IF strength >= 3 /\ ai_bank_ > 0 THEN <<"bet", Min(ai_bank_, bet_sizing(pot_))>>
        ELSE IF stage_ = "post" /\ strength = 2
        THEN <<"bet", Min(ai_bank_, bet_sizing(pot_))>>
        ELSE <<"check", 0>>

\* ------------------------------------------------------------------------
\* Bounds of the model and inputs
\* ------------------------------------------------------------------------
\* hands played in one session
MaxHands == 2

\* consecutive rejected menu inputs (depth of the player_turn recursion)
MaxReprompt == 1

\* amounts typed by the human: 1..MaxSmallAmount, and within MaxAllInGap of the maximum
MaxSmallAmount == 2

MaxAllInGap == 0

\* get_positive_int(prompt, max_value): a whole number in 1..max_value
AmountInputs(max_value) ==
    {v \in 1..max_value : v <= MaxSmallAmount \/ v >= max_value - MaxAllInGap}

\* menu inputs ("3" is no choice of the check/bet menu)
Choices == {"1", "2", "3"}

\* get_discard_indices: 0-based distinct indices, at most 3 of them
DiscardInputs == {<<>>, <<2>>, <<0, 1, 2>>}

\* outcomes of shuffle_deck: the first 16 cards dealt (the player's hand, the
\* opponent's hand, then the replacement cards); the rest of the deck keeps
\* the order of make_deck
ShuffleTops == {
    \* opponent holds three nines, the player a pair of aces
    << <<"A","s">>, <<"A","h">>, <<"7","d">>, <<"4","c">>, <<"2","s">>,
       <<"9","s">>, <<"9","h">>, <<"9","d">>, <<"K","c">>, <<"3","h">>,
       <<"A","d">>, <<"7","s">>, <<"7","h">>, <<"J","c">>, <<"6","d">>, <<"5","h">> >>,
    \* opponent holds king-queen high, the player a pair of sixes
    << <<"6","s">>, <<"6","h">>, <<"J","d">>, <<"9","c">>, <<"2","h">>,
       <<"K","s">>, <<"Q","h">>, <<"8","d">>, <<"5","c">>, <<"3","s">>,
       <<"K","h">>, <<"K","d">>, <<"4","s">>, <<"6","d">>, <<"Q","s">>, <<"10","h">> >>,
    \* opponent holds two pair, the player a higher two pair
    << <<"10","s">>, <<"10","h">>, <<"5","d">>, <<"5","c">>, <<"3","d">>,
       <<"8","s">>, <<"8","h">>, <<"4","d">>, <<"4","c">>, <<"J","s">>,
       <<"2","c">>, <<"7","c">>, <<"9","d">>, <<"Q","c">>, <<"A","c">>, <<"K","d">> >>,
    \* both hold the same straight
    << <<"5","s">>, <<"6","h">>, <<"7","d">>, <<"8","c">>, <<"9","s">>,
       <<"5","h">>, <<"6","d">>, <<"7","c">>, <<"8","s">>, <<"9","h">>,
       <<"2","d">>, <<"K","s">>, <<"3","c">>, <<"J","h">>, <<"A","s">>, <<"4","h">> >>
}

Reverse(s) == [i \in 1..Len(s) |-> s[Len(s) + 1 - i]]

\* make_deck() permuted so that the cards of top are dealt first, in order
ShuffledDeck(top) ==
    SelectSeq(make_deck, LAMBDA c : c \notin SeqToSet(top)) \o Reverse(top)

\* ------------------------------------------------------------------------
\* State
\* ------------------------------------------------------------------------
VARIABLES
    player_bank, ai_bank, pot, deck, player_hand, ai_hand,  \* GameState
    stage, to_call, last_bettor, has_raised,   \* betting_round: argument and locals
    choice,        \* player_turn: the last menu input read
    depth,         \* player_turn: nested re-prompts (player_turn calling itself)
    pc,            \* where the program stands
    last_action,   \* the last action announced in the current round
    hand_no,       \* play_hand calls so far
    h1, h2,        \* a call of a function on its own: the hands passed to it
    ret            \* a call of a function on its own: what it returned

vars == <<player_bank, ai_bank, pot, deck, player_hand, ai_hand,
          stage, to_call, last_bettor, has_raised, choice, depth, pc,
          last_action, hand_no, h1, h2, ret>>

\* the variables of a function called on its own
call == <<h1, h2, ret>>

NoCall == [fn |-> "none", value |-> <<>>]

cards == <<deck, player_hand, ai_hand>>

START_BANK == 50

START_POT == 10

ANTE == 5

HAND_SIZE == 5

PlayerPcs == {"P397", "P421", "P427"}

AiPcs == {"A402", "A410", "A418"}

RoundPcs == PlayerPcs \cup AiPcs

NoAction == [who |-> "none", what |-> "none"]

\* GameState.__init__, and main up to its while loop
Init ==
    /\ player_bank = START_BANK
    /\ ai_bank = START_BANK
    /\ pot = START_POT
    /\ deck = <<>>
    /\ player_hand = <<>>
    /\ ai_hand = <<>>
    /\ stage = "none"
    /\ to_call = 0
    /\ last_bettor = "none"
    /\ has_raised = FALSE
    /\ choice = "none"
    /\ depth = 0
    /\ pc = "main"
    /\ last_action = NoAction
    /\ hand_no = 0
    /\ h1 = <<>>
    /\ h2 = <<>>
    /\ ret = NoCall

\* ------------------------------------------------------------------------
\* Control flow of betting_round, play_hand and main
\* ------------------------------------------------------------------------
\* betting_round returned True: play_hand goes on to the draw or the showdown
round_done(stage_) == IF stage_ = "pre" THEN "draw" ELSE "showdown"

\* a slip: main asks to continue whatever the banks hold
after_hand_always_ask(player_bank_, ai_bank_) == "ask"

\* after play_hand returned: main stops on an empty bank, else asks to continue
after_hand(player_bank_, ai_bank_) ==
    IF player_bank_ <= 0 \/ ai_bank_ <= 0 THEN "end" ELSE "ask"

\* a slip: play_hand goes on although betting_round returned False
after_fold_ignored(stage_, player_bank_, ai_bank_) == round_done(stage_)

\* a turn returned False: betting_round and play_hand return at once, to main
after_fold(stage_, player_bank_, ai_bank_) == after_hand(player_bank_, ai_bank_)

\* a slip: after the human's bet the loop prompts the human again
after_player_again(pc_, to_call_, last_bettor_, stage_) ==
    IF pc_ = "P397"
    THEN IF to_call_ = 0 /\ last_bettor_ = "player" THEN "A402" ELSE "P427"
    ELSE IF to_call_ = 0 THEN round_done(stage_) ELSE "A418"

\* the loop of betting_round after player_turn returned True at pc_
after_player(pc_, to_call_, last_bettor_, stage_) ==
    IF pc_ = "P397"
    THEN IF to_call_ = 0 /\ last_bettor_ = "player" THEN "A402" ELSE "A410"
    ELSE IF to_call_ = 0 THEN round_done(stage_) ELSE "A418"

\* the loop of betting_round after ai_turn returned True at pc_
after_ai(pc_, to_call_, last_bettor_, stage_) ==
    IF pc_ = "A418"
    THEN IF to_call_ = 0 /\ last_bettor_ = "ai" THEN "P421" ELSE "P427"
    ELSE IF to_call_ = 0 THEN round_done(stage_) ELSE "P397"

\* player_first = True if stage == "pre" else False, and the first turn of the loop
first_turn(stage_) == IF stage_ = "pre" THEN "P397" ELSE "A418"

\* the locals of betting_round at its entry
RoundEntry(stage_) ==
    /\ stage' = stage_
    /\ to_call' = 0
    /\ last_bettor' = "none"
    /\ has_raised' = FALSE
    /\ choice' = "none"
    /\ depth' = 0
    /\ last_action' = NoAction
    /\ pc' = first_turn(stage_)

\* ------------------------------------------------------------------------
\* player_turn
\* ------------------------------------------------------------------------
\* a slip: the raise branch forgets the has_raised flag
player_branch_second_raise(choice_, to_call_, has_raised_, player_bank_) ==
    IF to_call_ > 0 THEN
        IF choice_ = "1" THEN "call"
        ELSE IF choice_ = "2"
             THEN IF player_bank_ <= 0 THEN "again" ELSE "raise"
        ELSE IF choice_ = "3" THEN "fold"
        ELSE "again"
    ELSE
        IF choice_ = "1" THEN "check"
        ELSE IF choice_ = "2"
             THEN IF player_bank_ <= 0 THEN "check" ELSE "bet"
        ELSE "again"

\* a slip: an invalid choice of the check/bet menu is taken as a check
player_branch_lenient(choice_, to_call_, has_raised_, player_bank_) ==
    IF to_call_ > 0 THEN
        IF choice_ = "1" THEN "call"
        ELSE IF choice_ = "2" /\ ~has_raised_
             THEN IF player_bank_ <= 0 THEN "again" ELSE "raise"
        ELSE IF choice_ = "3" THEN "fold"
        ELSE "again"
    ELSE
        IF choice_ = "1" THEN "check"
        ELSE IF choice_ = "2"
             THEN IF player_bank_ <= 0 THEN "check" ELSE "bet"
        ELSE "check"

\* which branch of player_turn a menu input takes
player_branch(choice_, to_call_, has_raised_, player_bank_) ==
    IF to_call_ > 0 THEN
        IF choice_ = "1" THEN "call"
        ELSE IF choice_ = "2" /\ ~has_raised_
             THEN IF player_bank_ <= 0 THEN "again" ELSE "raise"
        ELSE IF choice_ = "3" THEN "fold"
        ELSE "again"
    ELSE
        IF choice_ = "1" THEN "check"
        ELSE IF choice_ = "2"
             THEN IF player_bank_ <= 0 THEN "check" ELSE "bet"
        ELSE "again"

\* "1" facing a bet: call_amt = min(player_bank, to_call), paid into the pot
player_call(bank, pot_, to_call_) ==
    LET call_amt == Min(bank, to_call_) IN
    [bank |-> bank - call_amt, pot |-> pot_ + call_amt, to_call |-> to_call_ - call_amt]

\* a slip: the pot receives the uncapped amount
player_raise_uncapped(bank, pot_, to_call_, raise_amt) ==
    LET total == Min(bank, to_call_ + raise_amt) IN
    [bank |-> bank - total, pot |-> pot_ + to_call_ + raise_amt, to_call |-> raise_amt]

\* "2" facing a bet: total = min(player_bank, to_call + raise_amt), paid into the pot
player_raise(bank, pot_, to_call_, raise_amt) ==
    LET total == Min(bank, to_call_ + raise_amt) IN
    [bank |-> bank - total, pot |-> pot_ + total, to_call |-> raise_amt]

\* "2" with no bet pending and chips left
player_bet(bank, pot_, bet_amt) ==
    [bank |-> bank - bet_amt, pot |-> pot_ + bet_amt, to_call |-> bet_amt]

\* "3" facing a bet: the opponent wins the pot
player_fold(ai_bank_, pot_) == [winner_bank |-> ai_bank_ + pot_, pot |-> 0]

PlayerCall ==
    /\ pc \in PlayerPcs
    /\ player_branch("1", to_call, has_raised, player_bank) = "call"
    /\ LET r == player_call(player_bank, pot, to_call) IN
        /\ player_bank' = r.bank
        /\ pot' = r.pot
        /\ to_call' = r.to_call
    /\ last_bettor' = "ai"
    /\ choice' = "1"
    /\ depth' = 0
    /\ last_action' = [who |-> "player", what |-> "call"]
    /\ pc' = after_player(pc, to_call', last_bettor', stage)
    /\ UNCHANGED <<ai_bank, has_raised, stage, cards, hand_no, call>>

PlayerRaise ==
    /\ pc \in PlayerPcs
    /\ player_branch("2", to_call, has_raised, player_bank) = "raise"
    /\ \E raise_amt \in AmountInputs(player_bank) :
        LET r == player_raise(player_bank, pot, to_call, raise_amt) IN
        /\ player_bank' = r.bank
        /\ pot' = r.pot
        /\ to_call' = r.to_call
    /\ has_raised' = TRUE
    /\ last_bettor' = "player"
    /\ choice' = "2"
    /\ depth' = 0
    /\ last_action' = [who |-> "player", what |-> "raise"]
    /\ pc' = after_player(pc, to_call', last_bettor', stage)
    /\ UNCHANGED <<ai_bank, stage, cards, hand_no, call>>

PlayerFold ==
    /\ pc \in PlayerPcs
    /\ player_branch("3", to_call, has_raised, player_bank) = "fold"
    /\ LET r == player_fold(ai_bank, pot) IN
        /\ ai_bank' = r.winner_bank
        /\ pot' = r.pot
    /\ choice' = "3"
    /\ depth' = 0
    /\ last_action' = [who |-> "player", what |-> "fold"]
    /\ pc' = after_fold(stage, player_bank, ai_bank')
    /\ UNCHANGED <<player_bank, to_call, last_bettor, has_raised, stage, cards,
                   hand_no, call>>

PlayerCheck ==
    /\ pc \in PlayerPcs
    /\ \E c \in Choices :
        /\ player_branch(c, to_call, has_raised, player_bank) = "check"
        /\ choice' = c
    /\ last_bettor' = "player"
    /\ depth' = 0
    /\ last_action' = [who |-> "player", what |-> "check"]
    /\ pc' = after_player(pc, to_call, last_bettor', stage)
    /\ UNCHANGED <<player_bank, ai_bank, pot, to_call, has_raised, stage, cards,
                   hand_no, call>>

PlayerBet ==
    /\ pc \in PlayerPcs
    /\ player_branch("2", to_call, has_raised, player_bank) = "bet"
    /\ \E bet_amt \in AmountInputs(player_bank) :
        LET r == player_bet(player_bank, pot, bet_amt) IN
        /\ player_bank' = r.bank
        /\ pot' = r.pot
        /\ to_call' = r.to_call
    /\ last_bettor' = "player"
    /\ choice' = "2"
    /\ depth' = 0
    /\ last_action' = [who |-> "player", what |-> "bet"]
    /\ pc' = after_player(pc, to_call', last_bettor', stage)
    /\ UNCHANGED <<ai_bank, has_raised, stage, cards, hand_no, call>>

\* a rejected input: player_turn calls itself and prompts again
PlayerReprompt ==
    /\ pc \in PlayerPcs
    /\ depth < MaxReprompt
    /\ \E c \in Choices :
        /\ player_branch(c, to_call, has_raised, player_bank) = "again"
        /\ choice' = c
    /\ depth' = depth + 1
    /\ UNCHANGED <<player_bank, ai_bank, pot, to_call, last_bettor, has_raised,
                   stage, cards, hand_no, pc, last_action, call>>

\* ------------------------------------------------------------------------
\* ai_turn
\* ------------------------------------------------------------------------
\* the proposal of the policy in the current state
ai_proposal(lucky) ==
    ai_bet_decision(stage, ai_hand, ~has_raised, to_call, ai_bank, pot, lucky)

\* which branch of ai_turn a proposed action takes
ai_branch(action, to_call_, has_raised_, ai_bank_) ==
    IF to_call_ > 0 THEN
        IF action = "fold" THEN "fold"
        ELSE IF action = "call" THEN "call"
        ELSE IF action = "raise" /\ ~has_raised_ /\ ai_bank_ > to_call_ THEN "raise"
        ELSE "call"
    ELSE
        IF action = "bet" /\ ai_bank_ > 0 THEN "bet" ELSE "check"

\* the opponent folds: the player wins the pot
ai_fold(player_bank_, pot_) == [winner_bank |-> player_bank_ + pot_, pot |-> 0]

\* the opponent calls (also the default branch): pay = min(ai_bank, to_call)
ai_call(bank, pot_, to_call_) ==
    LET pay == Min(bank, to_call_) IN
    [bank |-> bank - pay, pot |-> pot_ + pay, to_call |-> to_call_ - pay]

\* the opponent raises by the proposed amount
ai_raise(bank, pot_, to_call_, amount) ==
    LET raise_amt == Min(bank - to_call_, Max(1, amount))
        total == to_call_ + raise_amt
        pay == Min(bank, total)
    IN [bank |-> bank - pay, pot |-> pot_ + pay, to_call |-> raise_amt]

\* the opponent bets the proposed amount
ai_bet(bank, pot_, amount) ==
    LET bet_amt == Min(bank, Max(1, amount)) IN
    [bank |-> bank - bet_amt, pot |-> pot_ + bet_amt, to_call |-> bet_amt]

\* ai_turn, fold branch
AiFold ==
    /\ LET r == ai_fold(player_bank, pot) IN
        /\ player_bank' = r.winner_bank
        /\ pot' = r.pot
    /\ last_action' = [who |-> "ai", what |-> "fold"]
    /\ pc' = after_fold(stage, player_bank', ai_bank)
    /\ UNCHANGED <<ai_bank, to_call, last_bettor, has_raised, stage, choice, depth,
                   cards, hand_no, call>>

\* ai_turn, call branch and default branch
AiCall ==
    /\ LET r == ai_call(ai_bank, pot, to_call) IN
        /\ ai_bank' = r.bank
        /\ pot' = r.pot
        /\ to_call' = r.to_call
    /\ last_bettor' = "player"
    /\ last_action' = [who |-> "ai", what |-> "call"]
    /\ pc' = after_ai(pc, to_call', last_bettor', stage)
    /\ UNCHANGED <<player_bank, has_raised, stage, choice, depth, cards, hand_no, call>>

\* ai_turn, raise branch
AiRaise(amount) ==
    /\ LET r == ai_raise(ai_bank, pot, to_call, amount) IN
        /\ ai_bank' = r.bank
        /\ pot' = r.pot
        /\ to_call' = r.to_call
    /\ has_raised' = TRUE
    /\ last_bettor' = "ai"
    /\ last_action' = [who |-> "ai", what |-> "raise"]
    /\ pc' = after_ai(pc, to_call', last_bettor', stage)
    /\ UNCHANGED <<player_bank, stage, choice, depth, cards, hand_no, call>>

\* ai_turn, bet branch
AiBet(amount) ==
    /\ LET r == ai_bet(ai_bank, pot, amount) IN
        /\ ai_bank' = r.bank
        /\ pot' = r.pot
        /\ to_call' = r.to_call
    /\ last_bettor' = "ai"
    /\ last_action' = [who |-> "ai", what |-> "bet"]
    /\ pc' = after_ai(pc, to_call', last_bettor', stage)
    /\ UNCHANGED <<player_bank, has_raised, stage, choice, depth, cards, hand_no, call>>

\* ai_turn, check branch
AiCheck ==
    /\ last_bettor' = "ai"
    /\ last_action' = [who |-> "ai", what |-> "check"]
    /\ pc' = after_ai(pc, to_call, last_bettor', stage)
    /\ UNCHANGED <<player_bank, ai_bank, pot, to_call, has_raised, stage, choice,
                   depth, cards, hand_no, call>>

\* ai_turn: the policy proposes, the branch taken acts
AiTurn ==
    /\ pc \in AiPcs
    /\ \E lucky \in BOOLEAN :
        \E prop \in {ai_proposal(lucky)} :
        \E branch \in {ai_branch(prop[1], to_call, has_raised, ai_bank)} :
            CASE branch = "fold" -> AiFold
              [] branch = "call" -> AiCall
              [] branch = "raise" -> AiRaise(prop[2])
              [] branch = "bet" -> AiBet(prop[2])
              [] branch = "check" -> AiCheck

\* ------------------------------------------------------------------------
\* new_hand, draw_phase, showdown, play_hand and main
\* ------------------------------------------------------------------------
\* the hand after popping the discarded indices and extending it with the
\* cards dealt to fill it up again
redraw(hand, discard_idxs, deck_) ==
    LET kept == SelectSeq([i \in 1..Len(hand) |-> <<i - 1, hand[i]>>],
                          LAMBDA e : e[1] \notin SeqToSet(discard_idxs))
        left == [i \in 1..Len(kept) |-> kept[i][2]]
    IN left \o deal_cards(deck_, HAND_SIZE - Len(left))

\* the cards deal() pops to fill the hand up again
redrawn(hand, discard_idxs) ==
    HAND_SIZE - (Len(hand) - Cardinality(SeqToSet(discard_idxs)))

\* the while test of main, play_hand, new_hand, and the entry of the pre-draw round
StartHand ==
    /\ player_bank > 0 /\ ai_bank > 0
    /\ hand_no < MaxHands
    /\ hand_no' = hand_no + 1
    /\ pot' = START_POT
    /\ player_bank' = player_bank - ANTE
    /\ ai_bank' = ai_bank - ANTE
    /\ \E top \in ShuffleTops :
        LET shuffled == ShuffledDeck(top) IN
        /\ player_hand' = deal_cards(shuffled, HAND_SIZE)
        /\ ai_hand' = deal_cards(deal_rest(shuffled, HAND_SIZE), HAND_SIZE)
        /\ deck' = deal_rest(shuffled, 2 * HAND_SIZE)
    /\ RoundEntry("pre")
    /\ UNCHANGED call

\* program start: the first hand
FirstHand ==
    /\ pc = "main"
    /\ StartHand

\* draw_phase, and the entry of the post-draw round
DrawPhase ==
    /\ pc = "draw"
    /\ \E discard_idxs \in DiscardInputs :
        LET n == redrawn(player_hand, discard_idxs)
            deck1 == deal_rest(deck, n)
            ai_discard == ai_choose_discards(ai_hand)
        IN
        /\ player_hand' = redraw(player_hand, discard_idxs, deck)
        /\ ai_hand' = redraw(ai_hand, ai_discard, deck1)
        /\ deck' = deal_rest(deck1, redrawn(ai_hand, ai_discard))
    /\ RoundEntry("post")
    /\ UNCHANGED <<player_bank, ai_bank, pot, hand_no, call>>

\* a slip: on a tie each side receives half the pot, rounded down
showdown_shares_halves(res, pot_) ==
    IF res > 0 THEN <<pot_, 0>>
    ELSE IF res < 0 THEN <<0, pot_>>
    ELSE <<pot_ \div 2, pot_ \div 2>>

\* how showdown shares the pot: <<to the player, to the opponent>>
showdown_shares(res, pot_) ==
    IF res > 0 THEN <<pot_, 0>>
    ELSE IF res < 0 THEN <<0, pot_>>
    ELSE <<pot_ \div 2, pot_ - (pot_ \div 2)>>

\* showdown += 1 and the return to main
Showdown ==
    /\ pc = "showdown"
    /\ LET shares == showdown_shares(compare_hands(player_hand, ai_hand), pot) IN
        /\ player_bank' = player_bank + shares[1]
        /\ ai_bank' = ai_bank + shares[2]
    /\ pot' = 0
    /\ pc' = after_hand(player_bank', ai_bank')
    /\ UNCHANGED <<to_call, last_bettor, has_raised, stage, choice, depth, cards,
                   last_action, hand_no, call>>

\* "Play another hand?" answered yes: the next hand starts
ContinueYes ==
    /\ pc = "ask"
    /\ StartHand

\* "Play another hand?" answered no
ContinueNo ==
    /\ pc = "ask"
    /\ pc' = "end"
    /\ UNCHANGED <<player_bank, ai_bank, pot, cards, stage, to_call,
                   last_bettor, has_raised, choice, depth, last_action, hand_no, call>>

Next ==
    \/ FirstHand
    \/ PlayerCall
    \/ PlayerRaise
    \/ PlayerFold
    \/ PlayerCheck
    \/ PlayerBet
    \/ PlayerReprompt
    \/ AiTurn
    \/ DrawPhase
    \/ Showdown
    \/ ContinueYes
    \/ ContinueNo

Spec == Init /\ [][Next]_vars

\* ------------------------------------------------------------------------
\* The evaluator, the comparison and the discard policy called on their own
\* ------------------------------------------------------------------------
\* the five ranks of a hand, as positions of RANKS in non-decreasing order, not
\* all five the same
RankLists ==
    {rs \in (1..Len(RANKS)) \X (1..Len(RANKS)) \X (1..Len(RANKS))
            \X (1..Len(RANKS)) \X (1..Len(RANKS)) :
        /\ rs[1] <= rs[2] /\ rs[2] <= rs[3] /\ rs[3] <= rs[4] /\ rs[4] <= rs[5]
        /\ rs[1] < rs[5]}

\* the suits given to the five cards: one suit throughout, or the four suits in turn
SuitLists == {<<"s", "s", "s", "s", "s">>, <<"s", "h", "d", "c", "s">>}

\* the order in which the cards are held: highest first, or mixed
Orders == {<<5, 4, 3, 2, 1>>, <<3, 1, 5, 2, 4>>}

\* the hand of these ranks and suits, held in this order
HandOf(rs, ss, order) == [i \in 1..HAND_SIZE |-> <<RANKS[rs[order[i]]], ss[order[i]]>>]

\* hands of 5 distinct cards of the deck
Hands ==
    {hand \in {HandOf(rs, ss, order) : rs \in RankLists, ss \in SuitLists, order \in Orders} :
        Cardinality(SeqToSet(hand)) = HAND_SIZE}

\* the same hand in other suits
Resuit(hand) ==
    LET next_suit == [x \in SeqToSet(SUITS) |->
                        SUITS[((CHOOSE i \in 1..Len(SUITS) : SUITS[i] = x) % Len(SUITS)) + 1]]
    IN [i \in 1..Len(hand) |-> <<hand[i][1], next_suit[hand[i][2]]>>]

\* hands to compare any hand with: one of each kind, the wheel plain and suited
Benchmarks == {
    << <<"A","h">>, <<"2","s">>, <<"3","d">>, <<"4","c">>, <<"5","h">> >>,
    << <<"A","c">>, <<"2","c">>, <<"3","c">>, <<"4","c">>, <<"5","c">> >>,
    << <<"2","h">>, <<"3","s">>, <<"4","d">>, <<"5","c">>, <<"6","h">> >>,
    << <<"J","h">>, <<"J","s">>, <<"J","d">>, <<"4","c">>, <<"4","h">> >>,
    << <<"K","d">>, <<"9","d">>, <<"8","d">>, <<"5","d">>, <<"3","d">> >>,
    << <<"Q","h">>, <<"Q","s">>, <<"7","d">>, <<"7","c">>, <<"A","d">> >>,
    << <<"K","h">>, <<"J","s">>, <<"8","d">>, <<"6","c">>, <<"3","h">> >> }

\* the hands a hand is compared with: the benchmarks, itself, itself in another
\* order and itself in other suits
OtherHands(hand) == Benchmarks \cup {hand, Reverse(hand), Resuit(hand)}

\* the deck a hand was dealt from, without the cards of the hand
deck_without(hand) == SelectSeq(make_deck, LAMBDA c : c \notin SeqToSet(hand))

\* a hand is picked; nothing has been called yet
CallInit ==
    /\ player_bank = START_BANK
    /\ ai_bank = START_BANK
    /\ pot = START_POT
    /\ deck = <<>>
    /\ player_hand = <<>>
    /\ ai_hand = <<>>
    /\ stage = "none"
    /\ to_call = 0
    /\ last_bettor = "none"
    /\ has_raised = FALSE
    /\ choice = "none"
    /\ depth = 0
    /\ pc = "main"
    /\ last_action = NoAction
    /\ hand_no = 0
    /\ h1 \in Hands
    /\ h2 = <<>>
    /\ ret = NoCall

session == <<player_bank, ai_bank, pot, deck, player_hand, ai_hand, stage, to_call,
             last_bettor, has_raised, choice, depth, pc, last_action, hand_no>>

\* evaluate_hand(h1)
CallEvaluate ==
    /\ ret = NoCall
    /\ ret' = [fn |-> "evaluate_hand", value |-> evaluate_hand(h1)]
    /\ UNCHANGED <<h1, h2, session>>

\* compare_hands(h1, h2)
CallCompare ==
    /\ ret = NoCall
    /\ \E other \in OtherHands(h1) :
        /\ h2' = other
        /\ ret' = [fn |-> "compare_hands", value |-> compare_hands(h1, other)]
    /\ UNCHANGED <<h1, session>>

\* ai_choose_discards(h1)
CallChooseDiscards ==
    /\ ret = NoCall
    /\ ret' = [fn |-> "ai_choose_discards", value |-> ai_choose_discards(h1)]
    /\ UNCHANGED <<h1, h2, session>>

\* draw_phase on h1, held by the opponent or by the human: the discarded
\* indices and the hand after the draw
CallDraw ==
    /\ ret = NoCall
    /\ \E discard_idxs \in {ai_choose_discards(h1)} \cup DiscardInputs :
        ret' = [fn |-> "draw_phase",
                value |-> <<discard_idxs, redraw(h1, discard_idxs, deck_without(h1))>>]
    /\ UNCHANGED <<h1, h2, session>>

CallNext ==
    \/ CallEvaluate
    \/ CallCompare
    \/ CallChooseDiscards
    \/ CallDraw

CallSpec == CallInit /\ [][CallNext]_vars

\* ------------------------------------------------------------------------
\* Well-formedness of the model
\* ------------------------------------------------------------------------
TypeOK ==
    /\ player_bank \in Int /\ ai_bank \in Int /\ pot \in Int
    /\ to_call \in Nat
    /\ pc \in RoundPcs \cup {"main", "draw", "showdown", "ask", "end"}
    /\ stage \in {"none", "pre", "post"}
    /\ hand_no \in 0..MaxHands
    /\ depth \in 0..MaxReprompt
    /\ pc # "main" =>
        /\ Len(player_hand) = HAND_SIZE /\ Len(ai_hand) = HAND_SIZE
        /\ Cardinality(SeqToSet(deck) \cup SeqToSet(player_hand) \cup SeqToSet(ai_hand))
             = Len(deck) + 2 * HAND_SIZE

\* ------------------------------------------------------------------------
\* Claims
\* ------------------------------------------------------------------------
Chips == player_bank + ai_bank + pot

\* an accepted action of the round is announced in this step
Acted(what_) == pc \in RoundPcs /\ last_action' # last_action /\ last_action'.what = what_

Call(who_) == [who |-> who_, what |-> "call"]

Raise(who_) == [who |-> who_, what |-> "raise"]

Fold(who_) == [who |-> who_, what |-> "fold"]

\* C1: every step taken inside a betting round (each action, the one that ends
\* the round included) leaves player_bank + ai_bank + pot unchanged, so the sum
\* at the return of betting_round is the sum at its entry.
C1_Conservation ==
    [][(pc \in RoundPcs) =>
        (player_bank' + ai_bank' + pot' = player_bank + ai_bank + pot)]_vars

\* a bank-capped raise has been made: the human is all in and still owed chips
C1_Witness ==
    /\ pc \in RoundPcs
    /\ last_action = Raise("player")
    /\ player_bank = 0
    /\ to_call > ai_bank
    /\ Chips = 2 * START_BANK

\* C2: once has_raised is true in a round, no later action of that round is a
\* raise; a raise happens only with has_raised false and sets it, and the flag
\* stays set until the round ends.
C2_OneRaise ==
    [][/\ Acted("raise") => ~has_raised /\ has_raised'
       /\ (pc \in RoundPcs /\ pc' \in RoundPcs /\ has_raised) => has_raised']_vars

\* after a raise the round went on: the other actor answered it with a call
\* that left the round open
C2_Witness ==
    /\ pc \in RoundPcs
    /\ has_raised
    /\ last_action = Call("ai")

\* C3: a call that answers the other actor's bet or raise ends the round at
\* once: no turn of that round follows it.
C3_CallEndsRound ==
    [][Acted("call") => pc' \notin RoundPcs]_vars

\* C4: after any call, to_call is 0.
C4_CallClears ==
    [][Acted("call") => to_call' = 0]_vars

\* C5: no bank is ever negative.
C5_BanksNonNegative == player_bank >= 0 /\ ai_bank >= 0

\* C6: a fold pays the whole pot to the other actor, empties the pot, leaves
\* the folder's bank alone and ends the hand: the program is back in main (the
\* continue prompt or the end), and neither the draw, the post-draw round nor
\* the showdown runs while the fold is the hand's last action.
C6_Fold ==
    [][/\ (pc \in RoundPcs /\ last_action'.what = "fold") =>
            /\ pot' = 0
            /\ pc' \in {"ask", "end"}
            /\ last_action'.who = "player" =>
                    ai_bank' = ai_bank + pot /\ player_bank' = player_bank
            /\ last_action'.who = "ai" =>
                    player_bank' = player_bank + pot /\ ai_bank' = ai_bank
       /\ last_action.what = "fold" =>
            \/ pc' \in {"ask", "end"} /\ UNCHANGED <<player_bank, ai_bank, pot>>
            \/ last_action'.what # "fold" /\ pc' = "P397" /\ stage' = "pre"]_vars

\* the opponent folded in the post-draw round and took nothing
C6_Witness ==
    /\ last_action = Fold("ai")
    /\ stage = "post"
    /\ pc = "ask"
    /\ pot = 0
    /\ player_bank > START_BANK

\* C7: a raise is made only with no earlier raise in the round and with the
\* raiser's bank strictly above to_call.
C7_RaiseLegal ==
    [][Acted("raise") =>
        /\ ~has_raised
        /\ last_action'.who = "player" => player_bank > to_call
        /\ last_action'.who = "ai" => ai_bank > to_call]_vars

\* C8: accepted actions alternate between the actors; the human acts first
\* before the draw, the opponent first after it.  A human turn is followed by
\* a human turn only as a re-prompt, which announces no action.
C8_Alternation ==
    [][/\ (pc \in PlayerPcs /\ pc' \in PlayerPcs) =>
            pc' = pc /\ depth' = depth + 1 /\ last_action' = last_action
       /\ pc \in AiPcs => pc' \notin AiPcs
       /\ (pc \in RoundPcs /\ last_action' # last_action) =>
            /\ last_action'.who # last_action.who
            /\ last_action'.who = (IF pc \in PlayerPcs THEN "player" ELSE "ai")
            /\ last_action = NoAction =>
                    last_action'.who = (IF stage = "pre" THEN "player" ELSE "ai")
       /\ (pc \notin RoundPcs /\ pc' \in RoundPcs) =>
            /\ last_action' = NoAction
            /\ pc' \in (IF stage' = "pre" THEN PlayerPcs ELSE AiPcs)]_vars

\* the third action of a pre-draw round: check, bet, call, and the round goes on
C8_Witness ==
    /\ stage = "pre"
    /\ pc \in AiPcs
    /\ last_action = Call("player")
    /\ ~has_raised

\* the menu inputs player_turn must reject in the current state
Rejected(c) ==
    \/ to_call > 0 /\ c = "2" /\ (has_raised \/ player_bank <= 0)
    \/ to_call > 0 /\ c \notin {"1", "2", "3"}
    \/ to_call <= 0 /\ c \notin {"1", "2"}

\* C9: a rejected menu input (a raise after a raise, a raise with no chips, any
\* other invalid choice) changes nothing of the round and leaves the turn with
\* the human.
C9_Rejected ==
    [][(pc \in PlayerPcs /\ (pc' # pc \/ depth' # depth) /\ Rejected(choice')) =>
        /\ UNCHANGED <<player_bank, ai_bank, pot, to_call, has_raised, last_bettor,
                       last_action>>
        /\ pc' = pc]_vars

\* the human asked to raise after the opponent's raise and is prompted again
C9_Witness ==
    /\ pc \in PlayerPcs
    /\ depth = 1
    /\ choice = "2"
    /\ has_raised
    /\ last_action = Raise("ai")
    /\ to_call > 0

\* C10: 45/45 with pot 10, the human checks, the opponent bets 2, the human
\* calls: the pre-draw round is over, with pot 14 and both banks at 43.
C10_Scenario ==
    (/\ stage = "pre"
     /\ last_action = Call("player")
     /\ ~has_raised
     /\ player_bank = START_BANK - ANTE - 2
     /\ ai_bank = START_BANK - ANTE - 2
     /\ pot = START_POT + 4)
    => pc = "draw"

\* section 4.1 read as a definition: the ranks held, and how often each is held
ranks_held(hand) == {card_rank(hand[i]) : i \in 1..Len(hand)}

held(hand, r) == Cardinality({i \in 1..Len(hand) : card_rank(hand[i]) = r})

ranks_held_times(hand, n) == {r \in ranks_held(hand) : held(hand, r) = n}

Wheel == {14, 5, 4, 3, 2}

Flush41(hand) == \A i, j \in 1..Len(hand) : card_suit(hand[i]) = card_suit(hand[j])

Straight41(hand) ==
    \/ \E low \in ranks_held(hand) : ranks_held(hand) = low..(low + 4)
    \/ ranks_held(hand) = Wheel

StraightHigh41(hand) == IF ranks_held(hand) = Wheel THEN 5 ELSE SetMax(ranks_held(hand))

\* the only member of a set of one
TheOne(S) == CHOOSE x \in S : TRUE

\* (category, tie-breakers) of section 4.1, the categories numbered 8 (Straight
\* Flush) down to 0 (High Card)
Strength41(hand) ==
    IF Straight41(hand) /\ Flush41(hand) THEN <<8, StraightHigh41(hand)>>
    ELSE IF ranks_held_times(hand, 4) # {} THEN
        <<7, TheOne(ranks_held_times(hand, 4)), TheOne(ranks_held_times(hand, 1))>>
    ELSE IF ranks_held_times(hand, 3) # {} /\ ranks_held_times(hand, 2) # {} THEN
        <<6, TheOne(ranks_held_times(hand, 3)), TheOne(ranks_held_times(hand, 2))>>
    ELSE IF Flush41(hand) THEN <<5>> \o SetSortedDesc(ranks_held(hand))
    ELSE IF Straight41(hand) THEN <<4, StraightHigh41(hand)>>
    ELSE IF ranks_held_times(hand, 3) # {} THEN
        <<3, TheOne(ranks_held_times(hand, 3))>> \o SetSortedDesc(ranks_held_times(hand, 1))
    ELSE IF Cardinality(ranks_held_times(hand, 2)) = 2 THEN
        <<2>> \o SetSortedDesc(ranks_held_times(hand, 2))
            \o <<TheOne(ranks_held_times(hand, 1))>>
    ELSE IF ranks_held_times(hand, 2) # {} THEN
        <<1, TheOne(ranks_held_times(hand, 2))>> \o SetSortedDesc(ranks_held_times(hand, 1))
    ELSE <<0>> \o SetSortedDesc(ranks_held(hand))

FourNines == {<<"9", "s">>, <<"9", "h">>, <<"9", "d">>, <<"9", "c">>, <<"2", "s">>}

\* C11: for every hand of 5 distinct cards evaluate_hand returns the category
\* that applies first in the order of section 4.1 and the tie-breakers listed
\* for it; the four nines with a two are Four of a Kind with (9, 2)
C11_Evaluator ==
    ret.fn = "evaluate_hand" =>
        /\ ret.value = Strength41(h1)
        /\ SeqToSet(h1) = FourNines => ret.value = <<7, 9, 2>>

\* the four nines with a two have been evaluated
C11_Witness ==
    ret.fn = "evaluate_hand" /\ SeqToSet(h1) = FourNines /\ ret.value[1] = 7

\* a straight in which the ace does not count low
HigherStraight(hand) == Straight41(hand) /\ ranks_held(hand) # Wheel

\* C12: the wheel is the only straight with a low ace: it evaluates to Straight
\* (suited: Straight Flush) with high card 5, compares lower than every other
\* straight of its kind, and no other hand holding an ace and a two is a straight
C12_Wheel ==
    /\ ret.fn = "evaluate_hand" /\ ranks_held(h1) = Wheel =>
        ret.value = IF Flush41(h1) THEN <<8, 5>> ELSE <<4, 5>>
    /\ ret.fn = "evaluate_hand" /\ {14, 2} \subseteq ranks_held(h1) /\ ranks_held(h1) # Wheel =>
        ret.value[1] \notin {4, 8}
    /\ ret.fn = "compare_hands" /\ (Flush41(h1) <=> Flush41(h2)) =>
        /\ ranks_held(h1) = Wheel /\ HigherStraight(h2) => ret.value = -1
        /\ HigherStraight(h1) /\ ranks_held(h2) = Wheel => ret.value = 1

\* a wheel in mixed suits has been compared with the six-high straight
C12_Witness ==
    /\ ret.fn = "compare_hands"
    /\ ranks_held(h1) = Wheel /\ ~Flush41(h1)
    /\ ranks_held(h2) = 2..6 /\ ~Flush41(h2)
    /\ ret.value = -1

\* a comes before b in the lexicographic order of tuples
LexLess(a, b) ==
    \/ \E k \in 1..Min(Len(a), Len(b)) : a[k] < b[k] /\ \A j \in 1..(k - 1) : a[j] = b[j]
    \/ Len(a) < Len(b) /\ \A j \in 1..Len(a) : a[j] = b[j]

\* C13: compare_hands is the lexicographic comparison of (category,
\* tie-breakers): it returns 1, -1 or 0, 0 for a hand and itself, the opposite
\* when the hands are swapped, and 0 exactly when the evaluations are equal, so
\* that neither the suits nor the order of the cards change it
C13_Compare ==
    ret.fn = "compare_hands" =>
        /\ ret.value \in {1, -1, 0}
        /\ ret.value = 1 <=> LexLess(evaluate_hand(h2), evaluate_hand(h1))
        /\ ret.value = -1 <=> LexLess(evaluate_hand(h1), evaluate_hand(h2))
        /\ ret.value = 0 <=> evaluate_hand(h1) = evaluate_hand(h2)
        /\ ret.value = -compare_hands(h2, h1)
        /\ h2 = h1 => ret.value = 0
        /\ h2 \in {Reverse(h1), Resuit(h1)} => ret.value = 0

\* two hands with no card in common have been compared and tie
C13_Witness ==
    /\ ret.fn = "compare_hands"
    /\ SeqToSet(h1) \cap SeqToSet(h2) = {}
    /\ ret.value = 0

\* what ai_bet_decision may propose: check or a bet within the bank when
\* nothing is owed; call, fold or a permitted raise when something is owed
LegalProposal(prop, can_raise, to_call_, ai_bank_) ==
    IF to_call_ = 0
    THEN \/ prop[1] = "check"
         \/ prop[1] = "bet" /\ 1 <= prop[2] /\ prop[2] <= ai_bank_
    ELSE \/ prop[1] \in {"call", "fold"}
         \/ prop[1] = "raise" /\ prop[2] >= 1 /\ can_raise /\ ai_bank_ > to_call_

\* C14: whenever the opponent is to act, ai_bet_decision proposes an action
\* that is legal in that state
C14_PolicyLegal ==
    pc \in AiPcs =>
        \A lucky \in BOOLEAN :
            LegalProposal(ai_proposal(lucky), ~has_raised, to_call, ai_bank)

\* C15: within a betting round the pot never decreases from one action to the
\* next, except that a fold pays it out and leaves it 0
C15_PotMonotone ==
    [][(pc \in RoundPcs) => (pot' >= pot \/ (Acted("fold") /\ pot' = 0))]_vars

\* the opponent calls whatever random.random() gives, pays nothing because its
\* bank is empty, and the human, whose bank is empty too, still owes: nothing
\* has changed but the turn, so the same two calls can follow one another for ever
CallLoop ==
    /\ pc \in AiPcs
    /\ \A lucky \in BOOLEAN :
        ai_branch(ai_proposal(lucky)[1], to_call, has_raised, ai_bank) = "call"
    /\ Acted("call")
    /\ player_bank = 0 /\ ai_bank = 0 /\ to_call > 0
    /\ pc' \in PlayerPcs
    /\ UNCHANGED <<player_bank, ai_bank, pot, to_call, has_raised, stage, cards>>

\* C16: every betting round ends, by a fold or by being complete, whatever
\* valid menu choices the human keeps giving: no state is reached from which
\* both actors can go on calling for ever
C16_RoundEnds == [][~CallLoop]_vars

\* C17: the ante of every hand, the first included, creates and destroys no
\* chips: new_hand keeps player_bank + ai_bank + pot, which stays the total of
\* the freshly created GameState
C17_AnteConserves ==
    [][(hand_no' # hand_no) =>
        /\ Chips' = Chips
        /\ Chips' = START_BANK + START_BANK + START_POT]_vars

\* the positions inside a hand
HandPcs == RoundPcs \cup {"draw", "showdown"}

\* C18: the session ends as soon as a hand finishes with a bank at 0 or below:
\* no hand starts and no continue prompt is asked with such a bank, and after
\* the first hand a hand starts only from the continue prompt
C18_SessionEnds ==
    [][/\ (hand_no' # hand_no) =>
            /\ player_bank > 0 /\ ai_bank > 0
            /\ pc = (IF hand_no = 0 THEN "main" ELSE "ask")
       /\ (pc' = "ask") => (player_bank' > 0 /\ ai_bank' > 0)
       /\ (pc \in HandPcs /\ pc' \notin HandPcs /\ (player_bank' <= 0 \/ ai_bank' <= 0)) =>
            pc' = "end"]_vars

\* a hand has finished with an empty bank and the session has ended, although
\* more hands could have been played
C18_Witness ==
    /\ pc = "end"
    /\ player_bank <= 0 \/ ai_bank <= 0
    /\ hand_no < MaxHands

\* C19: a showdown pays the whole pot out and empties it: to the winner alone
\* when compare_hands is not 0, else floor(pot / 2) to the human and the rest
\* to the opponent (shares at most 1 apart); the chips in play are unchanged
C19_Showdown ==
    [][(pc = "showdown") =>
        LET res == compare_hands(player_hand, ai_hand)
            half == pot \div 2
        IN
        /\ pot' = 0
        /\ Chips' = Chips
        /\ res > 0 => (player_bank' = player_bank + pot /\ ai_bank' = ai_bank)
        /\ res < 0 => (ai_bank' = ai_bank + pot /\ player_bank' = player_bank)
        /\ res = 0 =>
            /\ player_bank' = player_bank + half
            /\ ai_bank' = ai_bank + (pot - half)
            /\ (pot - half) - half \in {0, 1}]_vars

\* a showdown between equal hands has split the pot
C19_Witness ==
    /\ pc \in {"ask", "end"}
    /\ stage = "post" /\ last_action.what \notin {"fold", "none"}
    /\ compare_hands(player_hand, ai_hand) = 0
    /\ pot = 0
    /\ player_bank > 0 /\ ai_bank > 0

\* the 0-based indices of a hand, and those of its cards of rank Queen or higher
Indices == 0..(HAND_SIZE - 1)

HighIndices(hand) == {i \in Indices : card_rank(hand[i + 1]) >= RANK_VALUE["Q"]}

\* the Queen-or-higher cards chosen to be kept: the first two of them
KeptHigh(hand) == {i \in HighIndices(hand) : Cardinality({j \in HighIndices(hand) : j < i}) < 2}

\* C20: ai_choose_discards returns distinct indices in 0..4, at most 3 of them:
\* none for Two Pair or better, the 3 non-paired cards for One Pair, and without
\* a pair it keeps at most 2 cards of rank Queen or higher and never discards one
\* of those it chose to keep; after the draw a hand holds 5 cards again
C20_Discards ==
    /\ ret.fn = "ai_choose_discards" =>
        LET discard == SeqToSet(ret.value)
            category == evaluate_hand(h1)[1]
        IN
        /\ discard \subseteq Indices
        /\ Cardinality(discard) = Len(ret.value)
        /\ Len(ret.value) <= 3
        /\ category >= 2 => ret.value = <<>>
        /\ category = 1 =>
            /\ discard = {i \in Indices : held(h1, card_rank(h1[i + 1])) = 1}
            /\ Len(ret.value) = 3
        /\ category = 0 =>
            /\ Cardinality(HighIndices(h1) \ discard) <= 2
            /\ KeptHigh(h1) \cap discard = {}
    /\ ret.fn = "draw_phase" =>
        /\ Len(ret.value[2]) = HAND_SIZE
        /\ Cardinality(SeqToSet(ret.value[2])) = HAND_SIZE

\* the discards of a hand without a pair that holds three cards of rank Queen
\* or higher have been chosen: the third of them goes
C20_Witness ==
    /\ ret.fn = "ai_choose_discards"
    /\ evaluate_hand(h1)[1] = 0
    /\ Cardinality(HighIndices(h1)) = 3
    /\ Len(ret.value) = 3
    /\ HighIndices(h1) \cap SeqToSet(ret.value) # {}

====
